---- MODULE Spec2Model ----
(***************************************************************************)
(* redux-storage-effect: the versioned migration engine (Migration.ts),    *)
(* the disk space over a web storage (DiskSpace.ts) and the hydrate effect *)
(* (PersistenceEffects.ts).                                                *)
(*                                                                         *)
(* JavaScript strings are sequences of one-character strings, so that      *)
(* indexOf, slice and parseInt are computed the way the code computes      *)
(* them. JavaScript values are records tagged by their runtime type.       *)
(***************************************************************************)
EXTENDS Integers, Sequences, FiniteSets, TLC

VARIABLES
    phase,       \* position of the configuration code: "start", "older", "built"
    migrations,  \* Migrations.migrations, the step array (index 0 first)
    declared,    \* history: the builder calls in the order they were made
    storage,     \* the web storage: key string -> stored string
    rewritten,   \* history: owners whose record the hydrate effect migrated and wrote back
    last,        \* history: the last operation, its inputs and its outcome
    config,      \* the resolved options: compare and the storage handed in
    current,     \* the change detector's reference to the state it saw last
    collected    \* identities of the objects the garbage collector has reclaimed

vars == <<phase, migrations, declared, storage, rewritten, last,
          config, current, collected>>

----------------------------------------------------------------------------
(* Bounds *)

\* longest chain the configuration code declares (currentVersion + olderVersion calls)
MaxVersions == 3

\* deepest nesting of the payloads whose shape is described
MaxDepth == 2

----------------------------------------------------------------------------
(* JavaScript values *)

Num(n) == [t |-> "number", n |-> n]
Str(s) == [t |-> "string", s |-> s]
Obj(k, v) == [t |-> "object", k |-> k, v |-> v]
Null == [t |-> "null"]
Undef == [t |-> "undefined"]
\* an array, and an object with several entries [k, v] in insertion order
Arr(items) == [t |-> "array", items |-> items]
Struct(entries) == [t |-> "struct", entries |-> entries]

\* a Map with one entry, new Map([[k, v]])
MapOf(k, v) == [t |-> "map", k |-> k, v |-> v]

\* the numbers NaN and Infinity, outside the integers the model computes with
NaN == -1000
Infinity == 1000

Digits == <<"0", "1", "2", "3", "4", "5", "6", "7", "8", "9">>

KeyFoo == <<"f", "o", "o">>
KeyBar == <<"b", "a", "r">>
KeyBaz == <<"b", "a", "z">>

Numbers == {Num(0), Num(1)}
Strings == {Str(<<"0">>), Str(<<"1">>)}

\* the shapes of the three schema versions of the migration tests, and a bare number
Foos == {Obj(KeyFoo, s) : s \in Strings}
Bars == {Obj(KeyBar, n) : n \in Numbers}
Bazs == {Obj(KeyBaz, s) : s \in Strings}

\* Real = NonNullable<unknown>
Real == Numbers \cup Foos \cup Bars \cup Bazs

\* !x
Falsy(x) ==
    \/ x.t = "null"
    \/ x.t = "undefined"
    \/ x.t = "number" /\ x.n = 0
    \/ x.t = "string" /\ x.s = <<>>

\* a < b, a <= b, a === b on numbers: every comparison with NaN is false
JsGT(a, b) == a # NaN /\ b # NaN /\ a > b
JsLE(a, b) == a # NaN /\ b # NaN /\ a <= b
JsStrictEq(a, b) == a # NaN /\ b # NaN /\ a = b

\* String(n) for an integer n >= 0
RECURSIVE NumberToString(_)
NumberToString(n) ==
    IF n < 10 THEN <<Digits[n + 1]>>
    ELSE NumberToString(n \div 10) \o <<Digits[(n % 10) + 1]>>

DigitValue(c) == CHOOSE d \in 0..9 : Digits[d + 1] = c
IsDigit(c) == \E d \in 0..9 : Digits[d + 1] = c

\* Number(s) for the strings of the model: a run of digits, else NaN
RECURSIVE DigitsToNumber(_, _)
DigitsToNumber(s, acc) ==
    IF s = <<>> THEN acc
    ELSE DigitsToNumber(Tail(s), acc * 10 + DigitValue(Head(s)))

StringToNumber(s) ==
    IF s = <<>> THEN 0
    ELSE IF \A i \in 1..Len(s) : IsDigit(s[i]) THEN DigitsToNumber(s, 0)
    ELSE NaN

----------------------------------------------------------------------------
(* Errors *)

NoError == [name |-> "none", fn |-> "none", decl |-> 0]
\* the error a validator or an upgrade of declaration decl throws
ErrorOf(fn, decl) == [name |-> "Error", fn |-> fn, decl |-> decl]
\* calling migrations[i] when it is undefined
NotAFunction == [name |-> "TypeError", fn |-> "run", decl |-> 0]

Ok(v, calls) == [ok |-> TRUE, val |-> v, err |-> NoError, calls |-> calls]
Thrown(e, calls) == [ok |-> FALSE, val |-> Null, err |-> e, calls |-> calls]

----------------------------------------------------------------------------
(* Validators and upgrade functions the configuration code can declare *)

Codecs == {"foo", "bar", "baz", "number"}

Is(codec, x) ==
    CASE codec = "foo" -> x \in Foos
      [] codec = "bar" -> x \in Bars
      [] codec = "baz" -> x \in Bazs
      [] codec = "number" -> x \in Numbers

\* mustBe(codec)(thing): the value itself when it decodes, else throws
mustBe(codec, decl, thing) ==
    IF Is(codec, thing) THEN Ok(thing, <<[fn |-> "validate", decl |-> decl]>>)
    ELSE Thrown(ErrorOf("validate", decl), <<[fn |-> "validate", decl |-> decl]>>)

\* upgrade functions, typed from one shape to the next newer one
UpgradeType ==
    [ fooToBar    |-> [from |-> "foo", to |-> "bar"],
      barToBaz    |-> [from |-> "bar", to |-> "baz"],
      barToBazPos |-> [from |-> "bar", to |-> "baz"],
      barToNumber |-> [from |-> "bar", to |-> "number"],
      flip        |-> [from |-> "number", to |-> "number"],
      one         |-> [from |-> "number", to |-> "number"] ]

Upgrades == DOMAIN UpgradeType

\* migrate(self) of an olderVersion declaration; self has passed the step's validator
Upgrade(u, decl, self) ==
    LET call == <<[fn |-> "upgrade", decl |-> decl]>> IN
    CASE u = "fooToBar" -> Ok(Obj(KeyBar, Num(StringToNumber(self.v.s))), call)
      [] u = "barToBaz" -> Ok(Obj(KeyBaz, Str(NumberToString(self.v.n))), call)
      [] u = "barToBazPos" ->
            IF self.v.n = 0 THEN Thrown(ErrorOf("upgrade", decl), call)
            ELSE Ok(Obj(KeyBaz, Str(NumberToString(self.v.n))), call)
      [] u = "barToNumber" -> Ok(self.v, call)
      [] u = "flip" -> Ok(Num(1 - self.n), call)
      [] u = "one" -> Ok(Num(1), call)

----------------------------------------------------------------------------
(* Migration.ts: class Migrations *)

\* a migration function: the current validator, or (state) => migrate(validate(state))
CurrentFn(decl, codec) ==
    [decl |-> decl, kind |-> "current", validate |-> codec, migrate |-> "none"]
OlderFn(decl, codec, u) ==
    [decl |-> decl, kind |-> "older", validate |-> codec, migrate |-> u]

\* mutant of Chained: the upgrade is logged before the validator
ChainedUpgradeFirst(v, u) == [u EXCEPT !.calls = u.calls \o v.calls]

\* the upgrade's outcome, after the validator's call
Chained(v, u) == [u EXCEPT !.calls = v.calls \o u.calls]

\* (state) => migrate(validate(state)), given what validate(state) did
Validated(migrationFn, v) ==
    IF migrationFn.kind = "current" \/ ~v.ok THEN v
    ELSE Chained(v, Upgrade(migrationFn.migrate, migrationFn.decl, v.val))

\* calling a migration function on a state
Call(migrationFn, state) ==
    Validated(migrationFn, mustBe(migrationFn.validate, migrationFn.decl, state))

\* mutant of add: Array.prototype.push
addPush(migs, migrationFn) == migs \o <<migrationFn>>

\* Array.prototype.unshift
add(migs, migrationFn) == <<migrationFn>> \o migs

\* mutant of currentVersion: versions counted from 0
currentVersionFromZero(migs) == Len(migs) - 1

\* get currentVersion()
currentVersion(migs) == Len(migs)

ResetSentinel == [kind |-> "reset", value |-> Null, cause |-> NoError,
                  meta |-> [persistedData |-> Null, fromVersion |-> 0, toVersion |-> 0],
                  calls |-> <<>>]

Returned(state, calls) ==
    [kind |-> "value", value |-> state, cause |-> NoError,
     meta |-> [persistedData |-> Null, fromVersion |-> 0, toVersion |-> 0],
     calls |-> calls]

\* throw new MigrationError(error, {persistedData, fromVersion, toVersion})
MigrationError(cause, meta, calls) ==
    [kind |-> "throw", value |-> Null, cause |-> cause, meta |-> meta, calls |-> calls]

\* one round of the for loop of run, given what migrations[version - 1](state) did
RECURSIVE RunLoop(_, _, _, _)
Round(migs, state, version, calls, r) ==
    IF r.ok
    THEN RunLoop(migs, r.val, version + 1, calls \o r.calls)
    ELSE MigrationError(r.err,
             [persistedData |-> state, fromVersion |-> version,
              toVersion |-> currentVersion(migs)],
             calls \o r.calls)

\* mutant of RunLoop: version < this.currentVersion ends the loop one step early
RunLoopExclusive(migs, state, version, calls) ==
    IF version # NaN /\ version < currentVersion(migs)
    THEN IF version - 1 \in 0..(Len(migs) - 1)
         THEN Round(migs, state, version, calls, Call(migs[version], state))
         ELSE MigrationError(NotAFunction,
                  [persistedData |-> state, fromVersion |-> version,
                   toVersion |-> currentVersion(migs)],
                  calls)
    ELSE Returned(state, calls)

\* the for loop of run and its catch clause
RunLoop(migs, state, version, calls) ==
    IF JsLE(version, currentVersion(migs))
    THEN IF version - 1 \in 0..(Len(migs) - 1)
         THEN Round(migs, state, version, calls, Call(migs[version], state))
         ELSE MigrationError(NotAFunction,
                  [persistedData |-> state, fromVersion |-> version,
                   toVersion |-> currentVersion(migs)],
                  calls)
    ELSE Returned(state, calls)

\* mutant of run: no downgrade check before the loop
runWithoutDowngradeCheck(migs, state, version) == RunLoop(migs, state, version, <<>>)

\* mutant of run: the catch clause gives up and returns the Reset Sentinel
runResettingOnError(migs, state, version) ==
    IF JsGT(version, currentVersion(migs)) THEN ResetSentinel
    ELSE IF RunLoop(migs, state, version, <<>>).kind = "throw" THEN ResetSentinel
    ELSE RunLoop(migs, state, version, <<>>)

\* run(state, version)
run(migs, state, version) ==
    IF JsGT(version, currentVersion(migs)) THEN ResetSentinel
    ELSE RunLoop(migs, state, version, <<>>)

----------------------------------------------------------------------------
(* JSON, the default serializer *)

Quote == "\""
NullChars == <<"n", "u", "l", "l">>

\* JSON.stringify
RECURSIVE stringify(_)
RECURSIVE stringifyEntries(_)
RECURSIVE stringifyItems(_)
stringify(x) ==
    CASE x.t = "null" -> NullChars
      [] x.t = "number" -> IF x.n \in {NaN, Infinity} THEN NullChars
                           ELSE NumberToString(x.n)
      [] x.t = "array" -> <<"[">> \o stringifyItems(x.items) \o <<"]">>
      [] x.t = "map" -> <<"{", "}">>
      [] x.t = "string" -> <<Quote>> \o x.s \o <<Quote>>
      [] x.t = "object" ->
            <<"{", Quote>> \o x.k \o <<Quote, ":">> \o stringify(x.v) \o <<"}">>
      [] x.t = "struct" -> <<"{">> \o stringifyEntries(x.entries) \o <<"}">>

\* the entries of an object, "key":value with commas in between
stringifyEntries(entries) ==
    IF entries = <<>> THEN <<>>
    ELSE <<Quote>> \o entries[1].k \o <<Quote, ":">> \o stringify(entries[1].v)
            \o (IF Len(entries) = 1 THEN <<>> ELSE <<",">>)
            \o stringifyEntries(Tail(entries))

\* the items of an array with commas in between
stringifyItems(items) ==
    IF items = <<>> THEN <<>>
    ELSE stringify(items[1]) \o (IF Len(items) = 1 THEN <<>> ELSE <<",">>)
            \o stringifyItems(Tail(items))

KeyMyMap == <<"m", "y", "M", "a", "p">>
\* what the replacer of myJSON puts in the place of a Map: {v: [...value], t: "Map"}
MapRecord(k, v) ==
    Struct(<<[k |-> <<"v">>, v |-> Arr(<<Arr(<<Str(k), Str(v)>>)>>)],
             [k |-> <<"t">>, v |-> Str(<<"M", "a", "p">>)]>>)

\* strings that hold the separator of the stored record
SeparatedStrings == {Str(<<"|">>), Str(<<"1", "|", "0">>)}

\* the values JSON.parse can produce in the model
Parsable ==
    Real \cup Strings \cup {Null} \cup SeparatedStrings
        \cup {Struct(<<>>), Obj(KeyMyMap, Struct(<<>>)),
              MapRecord(<<"a">>, <<"b">>), Obj(KeyMyMap, MapRecord(<<"a">>, <<"b">>))}

SyntaxError == [name |-> "SyntaxError", fn |-> "parse", decl |-> 0]

\* JSON.parse: the value whose text this is, a SyntaxError for any other text
parse(text) ==
    IF \E x \in Parsable : stringify(x) = text
    THEN Ok(CHOOSE x \in Parsable : stringify(x) = text, <<>>)
    ELSE Thrown(SyntaxError, <<>>)

----------------------------------------------------------------------------
(* myJSON of the persistence tests: JSON with a replacer and a reviver for Map *)

\* JSON.stringify calls the replacer on the value and on every value inside what the
\* replacer returned: value instanceof Map ? {v: [...value], t: "Map"} : value
RECURSIVE replacer(_)
replacer(x) ==
    CASE x.t = "map" -> MapRecord(x.k, x.v)
      [] x.t = "object" -> Obj(x.k, replacer(x.v))
      [] OTHER -> x

\* reading value.v of null
NullProperty == [name |-> "TypeError", fn |-> "reviver", decl |-> 0]

\* JSON.parse calls the reviver on every value, the inner ones first:
\* value.v && value.t === "Map" ? new Map(value.v) : value
RECURSIVE reviver(_)
reviver(x) ==
    CASE x.t = "null" -> Thrown(NullProperty, <<>>)
      [] x.t = "object" ->
            IF reviver(x.v).ok THEN Ok(Obj(x.k, reviver(x.v).val), <<>>)
            ELSE reviver(x.v)
      [] x.t = "struct" ->
            IF \E k \in {<<"a">>}, v \in {<<"b">>} : x = MapRecord(k, v)
            THEN Ok(MapOf(x.entries[1].v.items[1].items[1].s,
                          x.entries[1].v.items[1].items[2].s), <<>>)
            ELSE Ok(x, <<>>)
      [] OTHER -> Ok(x, <<>>)

\* config.json: json ?? JSON
Serializers == {"JSON", "myJSON"}
jsonStringify(json, x) == IF json = "myJSON" THEN stringify(replacer(x)) ELSE stringify(x)
jsonParse(json, text) ==
    IF json = "myJSON" /\ parse(text).ok THEN reviver(parse(text).val) ELSE parse(text)

----------------------------------------------------------------------------
(* String.prototype.indexOf, slice and parseInt *)

\* mutant of indexOf: the index of the last occurrence
lastIndexOf(s, c) ==
    IF \E i \in 1..Len(s) : s[i] = c
    THEN (CHOOSE i \in 1..Len(s) : s[i] = c /\ \A j \in (i + 1)..Len(s) : s[j] # c) - 1
    ELSE -1

\* 0-based index of the first occurrence of the character, -1 if there is none
indexOf(s, c) ==
    IF \E i \in 1..Len(s) : s[i] = c
    THEN (CHOOSE i \in 1..Len(s) : s[i] = c /\ \A j \in 1..(i - 1) : s[j] # c) - 1
    ELSE -1

Clamp(i, len) == IF i < 0 THEN (IF len + i < 0 THEN 0 ELSE len + i)
                 ELSE IF i > len THEN len ELSE i

\* s.slice(from, to): a negative index counts from the end
slice(s, from, to) == SubSeq(s, Clamp(from, Len(s)) + 1, Clamp(to, Len(s)))

\* s.slice(from)
sliceFrom(s, from) == slice(s, from, Len(s))

RECURSIVE SkipSpaces(_)
SkipSpaces(s) == IF s # <<>> /\ Head(s) = " " THEN SkipSpaces(Tail(s)) ELSE s

RECURSIVE LeadingDigits(_)
LeadingDigits(s) ==
    IF s # <<>> /\ IsDigit(Head(s)) THEN <<Head(s)>> \o LeadingDigits(Tail(s)) ELSE <<>>

\* parseInt(s): leading blanks, a sign, then the longest run of digits; NaN without a digit
parseInt(s) ==
    LET t == SkipSpaces(s)
        neg == t # <<>> /\ Head(t) = "-"
        u == IF t # <<>> /\ Head(t) \in {"-", "+"} THEN Tail(t) ELSE t
        d == LeadingDigits(u)
    IN  IF d = <<>> THEN NaN
        ELSE IF neg THEN 0 - DigitsToNumber(d, 0) ELSE DigitsToNumber(d, 0)

----------------------------------------------------------------------------
(* Migration.ts: MigrationError and describeShape *)

\* typeof thing
typeOf(thing) ==
    CASE thing.t = "number" -> <<"n", "u", "m", "b", "e", "r">>
      [] thing.t = "string" -> <<"s", "t", "r", "i", "n", "g">>
      [] thing.t = "undefined" -> <<"u", "n", "d", "e", "f", "i", "n", "e", "d">>
      [] OTHER -> <<"o", "b", "j", "e", "c", "t">>

\* Object.entries(thing)
Entries(thing) ==
    IF thing.t = "struct" THEN thing.entries ELSE <<[k |-> thing.k, v |-> thing.v]>>

\* `${description}`: a string as it is, [object Object] for a keyed description
Interpolated(description) ==
    IF description.t = "string" THEN description.s
    ELSE <<"[", "o", "b", "j", "e", "c", "t", " ", "O", "b", "j", "e", "c", "t", "]">>

\* `Array<${description}>`
ArrayOf(description) == Str(<<"A", "r", "r", "a", "y", "<">> \o Interpolated(description) \o <<">">>)

RECURSIVE describeShape(_)

\* Object.fromEntries(entries.map(([key, value]) => [key, describeShape(value)]))
describeEntries(entries) ==
    Struct([i \in DOMAIN entries |->
               [k |-> entries[i].k, v |-> describeShape(entries[i].v)]])

\* mutant of describeShape: a string is described by itself
describeShapeEchoingStrings(thing) ==
    IF thing.t = "string" THEN thing
    ELSE IF Falsy(thing) \/ typeOf(thing) # <<"o", "b", "j", "e", "c", "t">> THEN Str(typeOf(thing))
    ELSE IF thing.t = "array"
    THEN ArrayOf(describeShape(IF thing.items = <<>> THEN Undef ELSE thing.items[1]))
    ELSE describeEntries(Entries(thing))

\* describeShape(thing)
describeShape(thing) ==
    IF Falsy(thing) \/ typeOf(thing) # <<"o", "b", "j", "e", "c", "t">> THEN Str(typeOf(thing))
    ELSE IF thing.t = "array"
    THEN ArrayOf(describeShape(IF thing.items = <<>> THEN Undef ELSE thing.items[1]))
    ELSE describeEntries(Entries(thing))

\* the characters of the serialized shape that go into the message
MessageShapeLength == 60

\* the message the MigrationError constructor builds from meta
message(meta) ==
    <<"M", "i", "g", "r", "a", "t", "i", "o", "n", " ", "f", "r", "o", "m", " ">>
        \o NumberToString(meta.fromVersion)
        \o <<" ", "t", "o", " ">> \o NumberToString(meta.toVersion)
        \o <<" ", "f", "a", "i", "l", "e", "d", ".", " ", "P", "e", "r", "s", "i", "s", "t", "e", "d", " ">>
        \o slice(stringify(describeShape(meta.persistedData)), 0, MessageShapeLength)

\* this.persistedShape
persistedShape(meta) == describeShape(meta.persistedData)

----------------------------------------------------------------------------
(* DiskSpace.ts *)

NAMESPACE == <<"a", "R", "z", "f", "3", "d", "7", "c", "o", "0", "u", "-", "D", "I", "S", "K">>

\* config.key of the persistence tests
ConfigKey == <<"t", "e", "s", "t">>

namespacedKey == NAMESPACE \o <<":">> \o ConfigKey \o <<":">>
separator == "|"

\* mutant of getOwnedKey: one key for every owner
getOwnedKeyShared(owner) == namespacedKey

\* getOwnedKey(owner)
getOwnedKey(owner) == namespacedKey \o owner

\* storage.getItem / setItem / removeItem
HasItem(st, key) == key \in DOMAIN st
setItem(st, key, value) == [k \in DOMAIN st \cup {key} |-> IF k = key THEN value ELSE st[k]]
removeItem(st, key) == [k \in DOMAIN st \ {key} |-> st[k]]

NoRecord == [kind |-> "undefined", version |-> 0, data |-> Null, error |-> NoError]

\* the end of get: data == null gives undefined (typeof version is always "number")
Persisted(version, data) ==
    IF ~data.ok
    THEN [kind |-> "throw", version |-> version, data |-> Null, error |-> data.err]
    ELSE IF data.val.t = "null" THEN NoRecord
    ELSE [kind |-> "record", version |-> version, data |-> data.val, error |-> NoError]

\* the version before the first separator, the payload after it
Split(storedString, separatorIdx) ==
    Persisted(parseInt(slice(storedString, 0, separatorIdx)),
              parse(sliceFrom(storedString, separatorIdx + 1)))

\* get(owner): undefined, {data, version}, or the serializer's error
get(st, owner) ==
    IF ~HasItem(st, getOwnedKey(owner)) THEN NoRecord
    ELSE IF st[getOwnedKey(owner)] = <<>> THEN NoRecord
    ELSE Split(st[getOwnedKey(owner)], indexOf(st[getOwnedKey(owner)], separator))

\* set(owner, state): latestVersion + separator + json.stringify(state)
set(st, latestVersion, owner, state) ==
    setItem(st, getOwnedKey(owner),
            NumberToString(latestVersion) \o <<separator>> \o stringify(state))

\* get and set of a disk space whose config.json is the given serializer
SplitUsing(json, storedString, separatorIdx) ==
    Persisted(parseInt(slice(storedString, 0, separatorIdx)),
              jsonParse(json, sliceFrom(storedString, separatorIdx + 1)))

getUsing(json, st, owner) ==
    IF ~HasItem(st, getOwnedKey(owner)) THEN NoRecord
    ELSE IF st[getOwnedKey(owner)] = <<>> THEN NoRecord
    ELSE SplitUsing(json, st[getOwnedKey(owner)],
                    indexOf(st[getOwnedKey(owner)], separator))

setUsing(json, st, latestVersion, owner, state) ==
    setItem(st, getOwnedKey(owner),
            NumberToString(latestVersion) \o <<separator>> \o jsonStringify(json, state))

\* mutant of clear: the record stays
clearNothing(st, owner) == st

\* clear(owner)
clear(st, owner) == removeItem(st, getOwnedKey(owner))

\* what Object.keys(storage) lists: the stored keys when storage is a Storage object
\* (window.localStorage handed in as it is), the three method names when it is the
\* wrapper that 'local' and 'session' resolve to
WrapperKeys ==
    {<<"g", "e", "t", "I", "t", "e", "m">>, <<"s", "e", "t", "I", "t", "e", "m">>,
     <<"r", "e", "m", "o", "v", "e", "I", "t", "e", "m">>}
ObjectKeys(st, storageOption) ==
    IF storageOption = "localStorage" THEN DOMAIN st ELSE WrapperKeys

\* key.startsWith(prefix)
startsWith(key, prefix) ==
    Len(key) >= Len(prefix) /\ SubSeq(key, 1, Len(prefix)) = prefix

\* 1-based positions at which pattern occurs in s
Occurrences(s, pattern) ==
    {i \in 1..(Len(s) - Len(pattern) + 1) : SubSeq(s, i, i + Len(pattern) - 1) = pattern}

\* s.replace(pattern, ""): the first occurrence is taken out
replace(s, pattern) ==
    IF Occurrences(s, pattern) = {} THEN s
    ELSE LET i == CHOOSE i \in Occurrences(s, pattern) :
                      \A j \in Occurrences(s, pattern) : i <= j
         IN  SubSeq(s, 1, i - 1) \o SubSeq(s, i + Len(pattern), Len(s))

\* getOwners(): the owners of the listed keys that start with namespacedKey
getOwners(st, storageOption) ==
    {replace(key, namespacedKey) :
        key \in {k \in ObjectKeys(st, storageOption) : startsWith(k, namespacedKey)}}

\* clearAll(): removeItem(getOwnedKey(owner)) for every owner getOwners yields
clearAll(st, storageOption) ==
    [k \in DOMAIN st \ {getOwnedKey(owner) : owner \in getOwners(st, storageOption)}
        |-> st[k]]

----------------------------------------------------------------------------
(* PersistenceEffects.ts: the hydrate effect *)

\* config.version, read from the engine by resolveConfig
configVersion(migs) == currentVersion(migs)

\* ensureVersionRelevance after config.migrate has returned or thrown
Migrated(st, migs, persisted, owner, migratedData) ==
    CASE migratedData.kind = "throw" ->
            [storage |-> st, kind |-> "throw", valid |-> Null,
             error |-> [name |-> "MigrationError", fn |-> "run", decl |-> 0],
             migrates |-> <<[data |-> persisted.data, version |-> persisted.version,
                             result |-> migratedData]>>]
      [] migratedData.kind = "reset" ->
            [storage |-> clear(st, owner), kind |-> "undefined", valid |-> Null,
             error |-> NoError,
             migrates |-> <<[data |-> persisted.data, version |-> persisted.version,
                             result |-> migratedData]>>]
      [] migratedData.kind = "value" ->
            [storage |-> set(st, configVersion(migs), owner, migratedData.value),
             kind |-> "value", valid |-> migratedData.value, error |-> NoError,
             migrates |-> <<[data |-> persisted.data, version |-> persisted.version,
                             result |-> migratedData]>>]

\* ensureVersionRelevance(persisted, owner)
ensureVersionRelevance(st, migs, persisted, owner) ==
    IF JsStrictEq(persisted.version, configVersion(migs))
    THEN [storage |-> st, kind |-> "value", valid |-> persisted.data,
          error |-> NoError, migrates |-> <<>>]
    ELSE Migrated(st, migs, persisted, owner,
                  run(migs, persisted.data, persisted.version))

\* the effect returns, having dispatched the hydrate action or nothing
Done(st, migrates, dispatched) ==
    [storage |-> st, outcome |-> "returned", error |-> NoError,
     migrates |-> migrates, dispatched |-> dispatched]

\* mutant of Propagated: the effect catches the error and returns
Swallowed(st, error, migrates) == Done(st, migrates, <<>>)

\* an error thrown inside the effect leaves it: there is no try/catch
Propagated(st, error, migrates) ==
    [storage |-> st, outcome |-> "threw", error |-> error,
     migrates |-> migrates, dispatched |-> <<>>]

\* theHydrateEffect after ensureVersionRelevance: if (!validData) return; else dispatch
Relevant(validData) ==
    IF validData.kind = "throw"
    THEN Propagated(validData.storage, validData.error, validData.migrates)
    ELSE IF validData.kind = "undefined" \/ Falsy(validData.valid)
    THEN Done(validData.storage, validData.migrates, <<>>)
    ELSE Done(validData.storage, validData.migrates, <<validData.valid>>)

\* mutant of Read: without a record the hydrate action is dispatched with null
ReadDispatchingNothing(st, migs, owner, persistedData) ==
    CASE persistedData.kind = "throw" -> Propagated(st, persistedData.error, <<>>)
      [] persistedData.kind = "undefined" -> Done(st, <<>>, <<Null>>)
      [] persistedData.kind = "record" ->
            Relevant(ensureVersionRelevance(st, migs, persistedData, owner))

\* theHydrateEffect after disk.get: if (!persistedData) return
Read(st, migs, owner, persistedData) ==
    CASE persistedData.kind = "throw" -> Propagated(st, persistedData.error, <<>>)
      [] persistedData.kind = "undefined" -> Done(st, <<>>, <<>>)
      [] persistedData.kind = "record" ->
            Relevant(ensureVersionRelevance(st, migs, persistedData, owner))

\* theHydrateEffect(api), with owner the owner config.select returns
theHydrateEffect(st, migs, owner) ==
    IF owner.t = "null" THEN Done(st, <<>>, <<>>)
    ELSE Read(st, migs, owner.s, get(st, owner.s))

----------------------------------------------------------------------------
(* PersistenceEffects.ts: the update effect, its change detector, the purge effect *)

\* the objects a store can hold as the selected state: two objects of equal content
Heap == <<Obj(KeyBar, Num(1)), Obj(KeyBar, Num(1))>>
Refs == DOMAIN Heap

\* a selected state: its value and, for an object, its identity (0 for a primitive)
Primitive(v) == [val |-> v, ref |-> 0]
Object(r) == [val |-> Heap[r], ref |-> r]
Undefined == Primitive(Null)

\* Object.is: identity for objects, the same value for primitives
ObjectIs(a, b) == IF a.ref # 0 \/ b.ref # 0 THEN a.ref = b.ref ELSE a.val = b.val

\* shallowEqual of the readme: the same keys with Object.is-equal values
shallowEqual(a, b) == a.val = b.val

\* config.compare: compare ?? Object.is
Compares == {"Object.is", "shallowEqual"}
isEqual(compare, a, b) ==
    IF compare = "Object.is" THEN ObjectIs(a, b) ELSE shallowEqual(a, b)

\* createWeakRef(data): a WeakRef for an object, a holder of the value otherwise
createWeakRef(data) ==
    [weak |-> ~Falsy(data.val) /\ data.val.t = "object", target |-> data]

\* current.deref(): undefined once the target of a WeakRef has been reclaimed
deref(ref, reclaimed) ==
    IF ref.weak /\ ref.target.ref \in reclaimed THEN Undefined ELSE ref.target

\* isNew(value) of createChangeDetector, given previous = current.deref()
isNew(compare, ref, previous, value) ==
    IF Falsy(previous.val) \/ ~isEqual(compare, previous, value)
    THEN [isNew |-> TRUE, current |-> createWeakRef(value)]
    ELSE [isNew |-> FALSE, current |-> ref]

\* hasChanged = createChangeDetector(config.compare)
hasChanged(compare, ref, reclaimed, value) ==
    isNew(compare, ref, deref(ref, reclaimed), value)

\* the end of theUpdateEffect: if (hasChanged(state)) disk.set(owner, state)
Changed(st, latestVersion, owner, state, changed) ==
    IF changed.isNew
    THEN [storage |-> set(st, latestVersion, owner, state.val),
          current |-> changed.current, did |-> "set"]
    ELSE [storage |-> st, current |-> changed.current, did |-> "nothing"]

\* mutant of theUpdateEffect: skipSync is honoured only when there is no owner
theUpdateEffectSyncingOwners(st, cfg, latestVersion, ref, reclaimed, update) ==
    IF update.skipSync /\ update.owner.t = "null"
    THEN [storage |-> st, current |-> ref, did |-> "nothing"]
    ELSE IF Falsy(update.state.val)
    THEN [storage |-> clear(st, update.owner.s), current |-> ref, did |-> "clear"]
    ELSE Changed(st, latestVersion, update.owner.s, update.state,
                 hasChanged(cfg.compare, ref, reclaimed, update.state))

\* mutant of theUpdateEffect: a state that is null is skipped like skipSync
theUpdateEffectKeepingRecord(st, cfg, latestVersion, ref, reclaimed, update) ==
    IF update.skipSync \/ Falsy(update.state.val)
    THEN [storage |-> st, current |-> ref, did |-> "nothing"]
    ELSE Changed(st, latestVersion, update.owner.s, update.state,
                 hasChanged(cfg.compare, ref, reclaimed, update.state))

\* theUpdateEffect(api), with update what config.select returns
theUpdateEffect(st, cfg, latestVersion, ref, reclaimed, update) ==
    IF update.skipSync THEN [storage |-> st, current |-> ref, did |-> "nothing"]
    ELSE IF Falsy(update.state.val)
    THEN [storage |-> clear(st, update.owner.s), current |-> ref, did |-> "clear"]
    ELSE Changed(st, latestVersion, update.owner.s, update.state,
                 hasChanged(cfg.compare, ref, reclaimed, update.state))

\* thePurgeEffect()
thePurgeEffect(st, cfg) == clearAll(st, cfg.storage)

----------------------------------------------------------------------------
(* Inputs *)

\* persistedVersion arguments of a direct migrate call
VersionInputs == (0..(MaxVersions + 1)) \cup {NaN}

OwnerA == <<"A">>
OwnerB == <<"B">>
Owners == {OwnerA, OwnerB}

\* the owner config.select returns: an owner key, or null
SelectedOwners == {Str(o) : o \in Owners} \cup {Null}

\* records found in the storage at start: written by earlier builds (versions 0, 1, 2),
\* by a newer build, or with a prefix that is no number; one payload is cut short
LegacyPrefixes ==
    {NumberToString(v) : v \in 0..2} \cup {NumberToString(MaxVersions + 1), <<"x">>}
LegacyPayloads ==
    {stringify(x) : x \in {Obj(KeyFoo, Str(<<"1">>)), Obj(KeyBar, Num(0)),
                           Obj(KeyBar, Num(1)), Null}} \cup {<<"{">>}
LegacyRecords == {p \o <<separator>> \o d : p \in LegacyPrefixes, d \in LegacyPayloads}

EmptyStorage == [k \in {} |-> <<>>]

LegacyStorages ==
    {EmptyStorage} \cup
    {[k \in {getOwnedKey(o)} |-> r] : o \in Owners, r \in LegacyRecords} \cup
    {[k \in {getOwnedKey(OwnerA), getOwnedKey(OwnerB)} |->
         IF k = getOwnedKey(OwnerA) THEN ra ELSE rb] :
         ra \in LegacyRecords, rb \in LegacyRecords}

KeySecret == <<"s", "e", "c", "r", "e", "t">>
KeyCount == <<"c", "o", "u", "n", "t">>
Secrets == {Str(<<"p", "w">>), Str(<<"q">>)}

\* persisted payloads handed to the MigrationError constructor: strings, numbers and
\* null, and arrays (empty, of one element) and objects (of one key, of two keys) of
\* them nested up to depth
Primitives == Secrets \cup {Num(7), Num(8), Null}
Nested(inner) ==
    {Arr(<<>>)} \cup {Arr(<<x>>) : x \in inner}
        \cup {Obj(KeySecret, x) : x \in inner}
        \cup {Struct(<<[k |-> KeySecret, v |-> p], [k |-> KeyCount, v |-> x]>>) :
                 p \in Secrets, x \in inner}
RECURSIVE Payloads(_)
Payloads(depth) ==
    IF depth = 0 THEN Primitives ELSE Primitives \cup Nested(Payloads(depth - 1))
PersistedPayloads == Payloads(MaxDepth)

\* the options createPersistenceEffects is given: compare left out or shallowEqual,
\* storage window.localStorage itself or 'local'
Configs == [compare : Compares, storage : {"localStorage", "local"}]
DefaultConfig == [compare |-> "Object.is", storage |-> "localStorage"]

\* the step array after the builder calls decls
RECURSIVE Built(_)
Built(decls) ==
    IF decls = <<>> THEN <<>>
    ELSE add(Built(SubSeq(decls, 1, Len(decls) - 1)), decls[Len(decls)])

\* the chains the update and purge effects are run with: a number at version 1,
\* {bar} at version 2 with {foo} before it
SyncChains ==
    {<<CurrentFn(1, "number")>>,
     <<CurrentFn(1, "bar"), OlderFn(2, "foo", "fooToBar")>>}

\* the storage they start with: nothing, or a version 1 record of owner B
\* what the same storage holds for others: a record of a configuration whose key
\* extends ConfigKey with ':', a record of an unrelated key, an entry of the host page
ExtendedKey == ConfigKey \o <<":", "b">>
UnrelatedKey == <<"x">>
ThemeKey == <<"t", "h", "e", "m", "e">>
ownedKeyUnder(key, owner) == NAMESPACE \o <<":">> \o key \o <<":">> \o owner
ForeignKeys ==
    {ownedKeyUnder(ExtendedKey, OwnerA), ownedKeyUnder(UnrelatedKey, OwnerA), ThemeKey}
LegacyFooRecord ==
    NumberToString(1) \o <<separator>> \o stringify(Obj(KeyFoo, Str(<<"1">>)))
SharedStorage ==
    [k \in ForeignKeys \cup {getOwnedKey(OwnerB)} |->
        IF k = getOwnedKey(OwnerB) THEN LegacyFooRecord
        ELSE IF k = ThemeKey THEN <<"d", "a", "r", "k">>
        ELSE NumberToString(1) \o <<separator>> \o stringify(Num(1))]

SyncStorages ==
    {EmptyStorage, [k \in {getOwnedKey(OwnerB)} |-> LegacyFooRecord], SharedStorage}

\* the states a disk space is asked to store: numbers, strings that hold the
\* separator, an object, the state with a Map of the persistence tests
DiskStates ==
    {Num(0), Num(1), Num(Infinity), Obj(KeyBar, Num(1)),
     Obj(KeyMyMap, MapOf(<<"a">>, <<"b">>))} \cup SeparatedStrings

\* config.version of the persistence tests (0 by default, 99), and of a built chain
DiskVersions == (0..MaxVersions) \cup {99}

DiskConfigs == [json : Serializers, version : DiskVersions]

\* the states config.select returns: null, a number, an object not yet reclaimed
SelectedStates(reclaimed) ==
    {Undefined} \cup {Primitive(n) : n \in Numbers}
        \cup {Object(r) : r \in Refs \ reclaimed}

----------------------------------------------------------------------------
(* The state machine *)

\* buildMigration: new Migrations(), before the definition callback runs
Init ==
    /\ phase = "start"
    /\ migrations = <<>>
    /\ declared = <<>>
    /\ storage = EmptyStorage
    /\ rewritten = {}
    /\ last = [op |-> "none"]
    /\ config = DefaultConfig
    /\ current = createWeakRef(Undefined)
    /\ collected = {}

InitEffects ==
    /\ phase = "start"
    /\ migrations = <<>>
    /\ declared = <<>>
    /\ storage \in LegacyStorages
    /\ rewritten = {}
    /\ last = [op |-> "none"]
    /\ config = DefaultConfig
    /\ current = createWeakRef(Undefined)
    /\ collected = {}

\* a disk space has been created over an empty storage, for a configuration with one
\* of the serializers and one of the versions
InitDisk ==
    /\ phase = "disk"
    /\ declared = <<>>
    /\ migrations = <<>>
    /\ storage = EmptyStorage
    /\ rewritten = {}
    /\ last = [op |-> "none"]
    /\ config \in DiskConfigs
    /\ current = createWeakRef(Undefined)
    /\ collected = {}

\* createPersistenceEffects has returned: the chain is declared, the change detector
\* has seen nothing
InitSync ==
    /\ phase = "built"
    /\ declared \in SyncChains
    /\ migrations = Built(declared)
    /\ storage \in SyncStorages
    /\ rewritten = {}
    /\ last = [op |-> "none"]
    /\ config \in Configs
    /\ current = createWeakRef(Undefined)
    /\ collected = {}

\* CurrentVersionBuildStep.currentVersion(validate)
CurrentVersion ==
    /\ phase = "start"
    /\ \E codec \in Codecs :
          LET fn == CurrentFn(1, codec) IN
          /\ migrations' = add(migrations, fn)
          /\ declared' = Append(declared, fn)
    /\ phase' = "older"
    /\ last' = [op |-> "currentVersion", calls |-> <<>>]
    /\ UNCHANGED <<storage, rewritten, config, current, collected>>

\* mutant of OlderVersion: the builder tries the validator out when it is declared
OlderVersionProbing ==
    /\ phase = "older"
    /\ Len(declared) < MaxVersions
    /\ \E u \in Upgrades :
          /\ UpgradeType[u].to = declared[Len(declared)].validate
          /\ LET fn == OlderFn(Len(declared) + 1, UpgradeType[u].from, u) IN
             /\ migrations' = add(migrations, fn)
             /\ declared' = Append(declared, fn)
    /\ last' = [op |-> "olderVersion",
                calls |-> <<[fn |-> "validate", decl |-> Len(declared) + 1]>>]
    /\ UNCHANGED <<phase, storage, rewritten, config, current, collected>>

\* OlderVersionBuildStep.olderVersion(validate, migrate): the upgrade maps the
\* step's own shape to the shape declared by the call before; the two functions are
\* wrapped in a closure and handed to add, neither is called
OlderVersion ==
    /\ phase = "older"
    /\ Len(declared) < MaxVersions
    /\ \E u \in Upgrades :
          /\ UpgradeType[u].to = declared[Len(declared)].validate
          /\ LET fn == OlderFn(Len(declared) + 1, UpgradeType[u].from, u) IN
             /\ migrations' = add(migrations, fn)
             /\ declared' = Append(declared, fn)
    /\ last' = [op |-> "olderVersion", calls |-> <<>>]
    /\ UNCHANGED <<phase, storage, rewritten, config, current, collected>>

\* mutant of Migrate: run takes the step it starts with off the array
MigrateConsuming ==
    /\ phase = "older"
    /\ \E data \in Real, version \in VersionInputs :
          \E r \in {run(migrations, data, version)} :
          last' = [op |-> "migrate", data |-> data, version |-> version, result |-> r,
                   first |-> IF last.op = "migrate" THEN last.first
                             ELSE [data |-> data, version |-> version, result |-> r],
                   others |-> last.op = "migrate"
                              /\ (last.others \/ data # last.first.data
                                               \/ version # last.first.version)]
    /\ migrations' = IF Len(migrations) > 1 THEN Tail(migrations) ELSE migrations
    /\ UNCHANGED <<phase, declared, storage, rewritten, config, current, collected>>

\* BuildResult.migrate(state, version), called directly: run reads the step array and
\* writes nothing. first is the first call made on this chain, others whether a call
\* with other arguments was made since.
Migrate ==
    /\ phase = "older"
    /\ \E data \in Real, version \in VersionInputs :
          \E r \in {run(migrations, data, version)} :
          last' = [op |-> "migrate", data |-> data, version |-> version, result |-> r,
                   first |-> IF last.op = "migrate" THEN last.first
                             ELSE [data |-> data, version |-> version, result |-> r],
                   others |-> last.op = "migrate"
                              /\ (last.others \/ data # last.first.data
                                               \/ version # last.first.version)]
    /\ UNCHANGED <<phase, migrations, declared, storage, rewritten, config, current, collected>>

\* createPersistenceEffects: resolveConfig reads {version, migrate}, createDiskSpace
\* keeps latestVersion
CreatePersistenceEffects ==
    /\ phase = "older"
    /\ phase' = "built"
    /\ last' = [op |-> "createPersistenceEffects", calls |-> <<>>]
    /\ UNCHANGED <<migrations, declared, storage, rewritten, config, current, collected>>

\* effects.hydrate(store)
Hydrate ==
    /\ phase = "built"
    /\ \E owner \in SelectedOwners :
          \E r \in {theHydrateEffect(storage, migrations, owner)} :
          /\ storage' = r.storage
          /\ rewritten' =
                IF owner.t = "null" THEN rewritten
                ELSE IF r.outcome = "returned" /\ r.migrates # <<>>
                        /\ r.migrates[1].result.kind = "value"
                THEN rewritten \cup {owner.s}
                ELSE IF r.storage # storage THEN rewritten \ {owner.s}
                ELSE rewritten
          /\ last' = [op |-> "hydrate", owner |-> owner, before |-> storage,
                      second |-> owner.t # "null" /\ owner.s \in rewritten,
                      outcome |-> r.outcome, error |-> r.error,
                      migrates |-> r.migrates, dispatched |-> r.dispatched]
    /\ UNCHANGED <<phase, migrations, declared, config, current, collected>>

\* history: the owners whose migrated record is still the one in the storage
StillRewritten(st) ==
    {o \in rewritten : HasItem(st, getOwnedKey(o))
                          /\ st[getOwnedKey(o)] = storage[getOwnedKey(o)]}

\* effects.update(store): select returns {owner, state, skipSync}; the owner may be
\* missing only when skipSync is true
Update ==
    /\ phase = "built"
    /\ \E owner \in SelectedOwners, state \in SelectedStates(collected),
          skipSync \in BOOLEAN :
          /\ skipSync \/ owner.t # "null"
          /\ \E r \in {theUpdateEffect(storage, config, configVersion(migrations),
                                        current, collected,
                                        [owner |-> owner, state |-> state,
                                         skipSync |-> skipSync])} :
                /\ storage' = r.storage
                /\ current' = r.current
                /\ rewritten' = StillRewritten(r.storage)
                /\ last' = [op |-> "update", owner |-> owner, state |-> state,
                            skipSync |-> skipSync, before |-> storage,
                            previous |-> current, did |-> r.did]
    /\ UNCHANGED <<phase, migrations, declared, config, collected>>

\* effects.purge(store)
Purge ==
    /\ phase = "built"
    /\ storage' = thePurgeEffect(storage, config)
    /\ rewritten' = StillRewritten(thePurgeEffect(storage, config))
    /\ last' = [op |-> "purge", before |-> storage]
    /\ UNCHANGED <<phase, migrations, declared, config, current, collected>>

\* the garbage collector reclaims the object the change detector holds weakly: no
\* one else refers to it any more, so it is never selected again
Collect ==
    /\ phase = "built"
    /\ current.weak
    /\ current.target.ref \notin collected
    /\ collected' = collected \cup {current.target.ref}
    /\ UNCHANGED <<phase, migrations, declared, storage, rewritten, last, config,
                   current>>

\* new MigrationError(cause, {persistedData, fromVersion, toVersion})
NewMigrationError ==
    /\ \E persistedData \in PersistedPayloads,
          fromVersion \in (MaxVersions - 1)..MaxVersions :
          \E meta \in {[persistedData |-> persistedData, fromVersion |-> fromVersion,
                         toVersion |-> MaxVersions]} :
          last' = [op |-> "MigrationError", meta |-> meta,
                   persistedShape |-> persistedShape(meta), message |-> message(meta)]
    /\ UNCHANGED <<phase, migrations, declared, storage, rewritten, config, current,
                   collected>>

Next == CurrentVersion \/ OlderVersion \/ Migrate

Spec == Init /\ [][Next]_vars

NextEffects == CurrentVersion \/ OlderVersion \/ CreatePersistenceEffects \/ Hydrate

SpecEffects == InitEffects /\ [][NextEffects]_vars

NextShape == NewMigrationError

SpecShape == Init /\ [][NextShape]_vars

\* disk.set(owner, state)
DiskSet ==
    /\ phase = "disk"
    /\ \E owner \in Owners, state \in DiskStates :
          /\ storage' = setUsing(config.json, storage, config.version, owner, state)
          /\ last' = [op |-> "set", owner |-> owner, state |-> state]
    /\ UNCHANGED <<phase, migrations, declared, rewritten, config, current, collected>>

\* disk.get(owner)
DiskGet ==
    /\ phase = "disk"
    /\ \E owner \in Owners :
          last' = [op |-> "get", owner |-> owner,
                   result |-> getUsing(config.json, storage, owner)]
    /\ UNCHANGED <<phase, migrations, declared, storage, rewritten, config, current,
                   collected>>

\* disk.clear(owner)
DiskClear ==
    /\ phase = "disk"
    /\ \E owner \in Owners :
          /\ storage' = clear(storage, owner)
          /\ last' = [op |-> "clear", owner |-> owner]
    /\ UNCHANGED <<phase, migrations, declared, rewritten, config, current, collected>>

NextDisk == DiskSet \/ DiskGet \/ DiskClear

SpecDisk == InitDisk /\ [][NextDisk]_vars

NextSync == Update \/ Hydrate \/ Purge \/ Collect

SpecSync == InitSync /\ [][NextSync]_vars

----------------------------------------------------------------------------
(* What the claims speak of *)

\* number of olderVersion calls made so far
OlderCalls == Cardinality({i \in DOMAIN declared : declared[i].kind = "older"})

\* the declaration for schema version i: the last olderVersion call declares version 1,
\* the currentVersion call the newest version
StepOfVersion(i) == declared[Len(declared) - i + 1]

\* the steps of versions v, v + 1, ..., N - 1 one after the other (validate, then
\* upgrade), then the current-version validator; stops at the first one that throws
RECURSIVE Composition(_, _)
Composition(data, v) ==
    LET step == StepOfVersion(v)
        validated == mustBe(step.validate, step.decl, data)
    IN  IF ~validated.ok \/ v = Len(declared) THEN validated
        ELSE LET upgraded == Upgrade(step.migrate, step.decl, validated.val) IN
             IF ~upgraded.ok THEN upgraded ELSE Composition(upgraded.val, v + 1)

MigrateCalled == last.op = "migrate"

\* the calls a migrate from version v makes when nothing throws: validator and upgrade
\* of v, of v + 1, ..., then the current validator (declaration 1)
RECURSIVE ExpectedCalls(_)
ExpectedCalls(v) ==
    IF v >= Len(declared) THEN <<[fn |-> "validate", decl |-> 1]>>
    ELSE <<[fn |-> "validate", decl |-> Len(declared) - v + 1],
           [fn |-> "upgrade", decl |-> Len(declared) - v + 1]>> \o ExpectedCalls(v + 1)

IsPrefix(s, t) == Len(s) <= Len(t) /\ SubSeq(t, 1, Len(s)) = s
InChain(version) == version # NaN /\ 1 <= version /\ version <= Len(declared)

HydrateRan == last.op = "hydrate" /\ last.owner.t # "null"
\* what disk.get read for the owner when the last hydrate effect started
ReadBefore == get(last.before, last.owner.s)
HydrateRead == HydrateRan /\ ReadBefore.kind = "record"
OwnedKey == getOwnedKey(last.owner.s)

\* the same keys, the same nesting and the same runtime type at every primitive
\* position
RECURSIVE SameStructure(_, _)
SameStructure(a, b) ==
    IF a.t \in {"array", "object", "struct"} /\ b.t \in {"array", "object", "struct"}
    THEN IF a.t = "array" \/ b.t = "array"
         THEN /\ a.t = b.t
              /\ Len(a.items) = Len(b.items)
              /\ \A i \in DOMAIN a.items : SameStructure(a.items[i], b.items[i])
         ELSE /\ Len(Entries(a)) = Len(Entries(b))
              /\ \A i \in DOMAIN Entries(a) :
                    /\ Entries(a)[i].k = Entries(b)[i].k
                    /\ SameStructure(Entries(a)[i].v, Entries(b)[i].v)
    ELSE a.t = b.t

\* the strings and numbers anywhere in a payload, as text
RECURSIVE Leaves(_)
Leaves(x) ==
    CASE x.t = "string" -> {x.s}
      [] x.t = "number" -> {NumberToString(x.n)}
      [] x.t = "array" -> UNION {Leaves(x.items[i]) : i \in DOMAIN x.items}
      [] x.t \in {"object", "struct"} ->
            UNION {Leaves(Entries(x)[i].v) : i \in DOMAIN Entries(x)}
      [] OTHER -> {}

Contains(s, text) == Occurrences(s, text) # {}

\* the descriptor the rules give: the runtime type tag of a primitive, the keys with
\* the descriptors of their values, Array<D> with D the descriptor of the first
\* element (written as JSON when it is keyed), undefined for no element
RECURSIVE RuleShape(_)
RuleTag(thing) ==
    CASE thing.t = "number" -> Str(<<"n", "u", "m", "b", "e", "r">>)
      [] thing.t = "string" -> Str(<<"s", "t", "r", "i", "n", "g">>)
      [] thing.t = "undefined" -> Str(<<"u", "n", "d", "e", "f", "i", "n", "e", "d">>)
      [] thing.t = "null" -> Str(<<"o", "b", "j", "e", "c", "t">>)
RuleArray(d) ==
    Str(<<"A", "r", "r", "a", "y", "<">> \o (IF d.t = "string" THEN d.s ELSE stringify(d)) \o <<">">>)
RuleShape(thing) ==
    CASE thing.t = "array" ->
            RuleArray(RuleShape(IF thing.items = <<>> THEN Undef ELSE thing.items[1]))
      [] thing.t = "object" -> Struct(<<[k |-> thing.k, v |-> RuleShape(thing.v)]>>)
      [] thing.t = "struct" ->
            Struct([i \in DOMAIN thing.entries |->
                       [k |-> thing.entries[i].k, v |-> RuleShape(thing.entries[i].v)]])
      [] OTHER -> RuleTag(thing)

ErrorBuilt == last.op = "MigrationError"

UpdateRan == last.op = "update"
\* the last update effect was to synchronize a state that is not null
Synchronizing == UpdateRan /\ ~last.skipSync /\ last.state.val.t # "null"
\* the storage key of an owner's record under the configured key "test"
KeyOf(owner) == NAMESPACE \o <<":", "t", "e", "s", "t", ":">> \o owner
\* the part of a storage that is the record under one key
Own(st, key) == [k \in DOMAIN st \cap {key} |-> st[k]]
\* the two storages agree on every key but one
SameButFor(st, before, key) ==
    \A k \in (DOMAIN st \cup DOMAIN before) \ {key} :
        k \in DOMAIN st /\ k \in DOMAIN before /\ st[k] = before[k]
\* the record set writes for a state under the configured version
RecordOf(state) ==
    NumberToString(Len(declared)) \o <<separator>> \o stringify(state)

----------------------------------------------------------------------------
(* Migration engine *)

\* C1: a chain of one currentVersion call and n olderVersion calls has version 1 + n
\* (version 1 with currentVersion alone, one more for each olderVersion call).
VersionIsOnePlusOlderCalls ==
    phase # "start" =>
        /\ declared[1].kind = "current"
        /\ currentVersion(migrations) = 1 + OlderCalls

VersionThreeReached ==
    phase # "start" /\ OlderCalls = 2 /\ currentVersion(migrations) = 3

\* C2: for 1 <= v <= N, when no validator or upgrade throws, migrate(data, v) returns
\* the composition of the steps declared for versions v..N-1 followed by the current
\* validator; and it returns a value only then.
MigrateIsComposition ==
    MigrateCalled /\ InChain(last.version)
        /\ (Composition(last.data, last.version).ok \/ last.result.kind = "value")
    => /\ last.result.kind = "value"
       /\ Composition(last.data, last.version).ok
       /\ last.result.value = Composition(last.data, last.version).val

MigratedThroughThreeVersions ==
    /\ MigrateCalled /\ Len(declared) = 3 /\ last.version = 1
    /\ last.result.kind = "value"
    /\ last.result.value # last.data

\* C3: for a persistedVersion above the current version migrate returns the Reset
\* Sentinel: it does not throw and calls no validator and no upgrade.
DowngradeReturnsReset ==
    MigrateCalled /\ JsGT(last.version, Len(declared))
    => last.result.kind = "reset" /\ last.result.calls = <<>>

DowngradeReached ==
    /\ MigrateCalled /\ last.version = Len(declared) + 1
    /\ last.result.kind = "reset"

\* C4: when a validator or an upgrade throws e during migrate, migrate throws a
\* MigrationError whose cause is e: it returns neither the Reset Sentinel nor a value.
ThrownErrorIsWrapped ==
    MigrateCalled /\ InChain(last.version)
        /\ ~Composition(last.data, last.version).ok
    => /\ last.result.kind = "throw"
       /\ last.result.cause = Composition(last.data, last.version).err
       /\ last.result.cause.name = "Error"

UpgradeThrewMidChain ==
    /\ MigrateCalled /\ last.result.kind = "throw"
    /\ last.result.cause.fn = "upgrade"
    /\ Len(last.result.calls) = 4

\* C5: for data that passes the current validator, migrate(data, currentVersion)
\* calls the current validator exactly once, calls no upgrade, and returns the
\* validator's output, equal to data.
SameVersionValidatesOnce ==
    MigrateCalled /\ last.version = Len(declared)
        /\ Is(declared[1].validate, last.data)
    => /\ last.result.kind = "value"
       /\ last.result.value = last.data
       /\ last.result.calls = <<[fn |-> "validate", decl |-> 1]>>

SameVersionReached ==
    /\ MigrateCalled /\ Len(declared) = 3 /\ last.version = 3
    /\ Is(declared[1].validate, last.data)

\* C6: whatever version disk.get hands to migrate (below 1, in the chain, above it,
\* not a number), a value migrate returns is the output of the current validator,
\* called as the last step.
ReturnedValueWasValidated ==
    HydrateRan /\ last.migrates # <<>> /\ last.migrates[1].result.kind = "value"
    => /\ last.migrates[1].result.calls # <<>>
       /\ last.migrates[1].result.calls[Len(last.migrates[1].result.calls)]
              = [fn |-> "validate", decl |-> 1]
       /\ Is(declared[1].validate, last.migrates[1].result.value)

----------------------------------------------------------------------------
(* Hydrate effect *)

\* C7: when the owner's stored record has a version above the configured one, migrate
\* returns the Reset Sentinel, the owner's record is removed, nothing is dispatched
\* and the effect returns normally.
NewerRecordIsReset ==
    HydrateRead /\ JsGT(ReadBefore.version, Len(declared))
    => /\ Len(last.migrates) = 1
       /\ last.migrates[1].result.kind = "reset"
       /\ ~HasItem(storage, OwnedKey)
       /\ last.dispatched = <<>>
       /\ last.outcome = "returned"

NewerRecordHydrated ==
    /\ HydrateRead /\ JsGT(ReadBefore.version, Len(declared))
    /\ HasItem(last.before, OwnedKey)

\* C8: when migrate throws a MigrationError during the hydrate effect, the error
\* leaves the effect uncaught, nothing is dispatched and the storage is as it was.
MigrationErrorPropagates ==
    HydrateRan /\ last.migrates # <<>> /\ last.migrates[1].result.kind = "throw"
    => /\ last.outcome = "threw"
       /\ last.error.name = "MigrationError"
       /\ last.dispatched = <<>>
       /\ storage = last.before

MigrationThrewInHydrate ==
    /\ HydrateRan /\ last.migrates # <<>>
    /\ last.migrates[1].result.kind = "throw"
    /\ last.migrates[1].result.cause.name = "Error"

\* C9: when the stored version equals the configured version, migrate is not called,
\* the storage is unchanged and the hydrate action is dispatched with the stored data.
SameVersionHydratesStoredData ==
    HydrateRead /\ JsStrictEq(ReadBefore.version, Len(declared))
    => /\ last.migrates = <<>>
       /\ storage = last.before
       /\ last.dispatched = <<ReadBefore.data>>

\* C10: when the stored version differs from the configured one and migrate returns
\* a value m, migrate was called once with the stored data and version, the record
\* is rewritten as (configured version, m) and the hydrate action is dispatched with
\* m; a second hydrate of that owner does not call migrate again.
MigratedRecordIsRewrittenAndDispatched ==
    /\ HydrateRead /\ ~JsStrictEq(ReadBefore.version, Len(declared))
           /\ last.migrates # <<>> /\ last.migrates[1].result.kind = "value"
       => /\ Len(last.migrates) = 1
          /\ last.migrates[1].data = ReadBefore.data
          /\ last.migrates[1].version = ReadBefore.version
          /\ HasItem(storage, OwnedKey)
          /\ storage[OwnedKey] = NumberToString(Len(declared)) \o <<separator>>
                                    \o stringify(last.migrates[1].result.value)
          /\ last.dispatched = <<last.migrates[1].result.value>>
    /\ HydrateRan /\ last.second => last.migrates = <<>>

----------------------------------------------------------------------------
(* MigrationError *)

\* C20: every MigrationError thrown by migrate(data, persistedVersion) records the
\* persistedVersion the caller passed as its from-version and the current version as
\* its to-version, whichever step failed.
MigrationErrorRecordsCallerVersion ==
    MigrateCalled /\ last.result.kind = "throw"
    => /\ last.result.meta.fromVersion = last.version
       /\ last.result.meta.toVersion = Len(declared)

\* C18: migrate is deterministic and stateless: a call gives the outcome the first
\* call with the same data and version gave on this chain, whatever calls were made
\* in between, and no migrate call changes the step array or the version.
MigrateIsStateless ==
    /\ [](MigrateCalled /\ last.data = last.first.data
                        /\ last.version = last.first.version
           => last.result = last.first.result)
    /\ [][last'.op = "migrate"
           => /\ migrations' = migrations
              /\ currentVersion(migrations') = currentVersion(migrations)]_vars

MigrateRepeatedAfterOthers ==
    /\ MigrateCalled /\ last.others /\ Len(declared) = 3
    /\ last.data = last.first.data /\ last.version = last.first.version
    /\ last.version = 1 /\ last.result.kind = "value"

\* C19: while the chain is declared (currentVersion, every olderVersion) and when the
\* effects are created, no validator and no upgrade is called; they are called only
\* by migrate.
NothingInvokedWhileDeclaring ==
    last.op \in {"currentVersion", "olderVersion", "createPersistenceEffects"}
    => last.calls = <<>>

ThreeVersionsDeclared ==
    /\ last.op = "olderVersion" /\ Len(declared) = 3 /\ last.calls = <<>>
    /\ currentVersion(migrations) = 3

\* C17: the shape descriptor and the message of a MigrationError do not depend on the
\* values in the payload: for every payload of the same structure (same keys, same
\* nesting, same runtime type at every primitive position) both are the same, and no
\* string or number of the payload appears in either.
ShapeIgnoresValues ==
    ErrorBuilt
    => /\ \A other \in PersistedPayloads :
             SameStructure(last.meta.persistedData, other)
             => /\ describeShape(other) = last.persistedShape
                /\ message([last.meta EXCEPT !.persistedData = other]) = last.message
       /\ \A text \in Leaves(last.meta.persistedData) :
             /\ ~Contains(last.message, text)
             /\ ~Contains(stringify(last.persistedShape), text)

SecretAndCountDescribed ==
    /\ ErrorBuilt
    /\ last.meta.persistedData
          = Struct(<<[k |-> KeySecret, v |-> Str(<<"p", "w">>)],
                     [k |-> KeyCount, v |-> Num(7)]>>)
    /\ last.persistedShape
          = Struct(<<[k |-> KeySecret, v |-> Str(typeOf(Str(<<"p", "w">>)))],
                     [k |-> KeyCount, v |-> Str(typeOf(Num(7)))]>>)

\* C22: in migrate(data, v) with 1 <= v <= currentVersion the functions are called in
\* the order validator of v, upgrade of v, validator of v + 1, ..., current validator,
\* each at most once and none of a version below v; a returned value has seen them
\* all, after the first function that throws none is called, and there are at most
\* currentVersion - v + 1 step applications.
MigrateCallsInOrder ==
    MigrateCalled /\ InChain(last.version)
    => /\ IsPrefix(last.result.calls, ExpectedCalls(last.version))
       /\ last.result.kind = "value"
             => last.result.calls = ExpectedCalls(last.version)
       /\ last.result.kind = "throw"
             => /\ last.result.calls # <<>>
                /\ last.result.calls[Len(last.result.calls)]
                      = [fn |-> last.result.cause.fn, decl |-> last.result.cause.decl]
       /\ Len(last.result.calls) <= 2 * (Len(declared) - last.version) + 1
       /\ last.result.kind # "reset"

AllFiveCallsMade ==
    /\ MigrateCalled /\ Len(declared) = 3 /\ last.version = 1
    /\ last.result.kind = "value"
    /\ Len(last.result.calls) = 5

\* C23: describeShape follows the rules for every nested value: a primitive gives its
\* runtime type tag, a keyed structure the same keys with the descriptors of their
\* values, an array the tag Array<D> with D the descriptor of its first element
\* (undefined for an empty array), also when that element is keyed or an array.
DescribeShapeFollowsRules ==
    ErrorBuilt => last.persistedShape = RuleShape(last.meta.persistedData)

----------------------------------------------------------------------------
(* Update and purge effects *)

\* C11: whatever update, hydrate and purge effects ran before, once an update effect
\* has run with skipSync not true, an owner O and a state S that is not null, the
\* record of O holds S under the configured version, and a hydrate effect for O
\* dispatches S.
StorageHoldsSelectedState ==
    Synchronizing
    => /\ HasItem(storage, OwnedKey)
       /\ storage[OwnedKey] = RecordOf(last.state.val)
       /\ theHydrateEffect(storage, migrations, last.owner).dispatched
              = <<last.state.val>>

\* C12: the update effect writes a state only when it has written none before or the
\* state is not equal, under the configured compare, to the state of its previous
\* write; update effects run one after the other with equal states write at most once.
UpdateWritesOnlyChangedState ==
    UpdateRan /\ last.did = "set"
    => \/ last.previous.target = Undefined
       \/ ~isEqual(config.compare, last.previous.target, last.state)

\* C13: when select returns skipSync = true the update effect leaves the storage as
\* it was, whatever owner and state it selected: a stored state survives and is what
\* a hydrate effect reads afterwards.
SkipSyncLeavesStorage ==
    UpdateRan /\ last.skipSync
    => /\ storage = last.before
       /\ last.did = "nothing"
       /\ \A o \in Owners : get(storage, o) = get(last.before, o)

SkipSyncKeptOtherState ==
    /\ UpdateRan /\ last.skipSync /\ last.owner = Str(OwnerA)
    /\ ~Falsy(last.state.val)
    /\ HasItem(storage, KeyOf(OwnerA))
    /\ storage[KeyOf(OwnerA)] # RecordOf(last.state.val)

\* C14: when skipSync is not true and the selected state is null or undefined, the
\* update effect removes the record of the selected owner.
NullStateRemovesRecord ==
    UpdateRan /\ ~last.skipSync /\ last.state.val.t = "null"
    => /\ ~HasItem(storage, KeyOf(last.owner.s))
       /\ last.did = "clear"

NullStateRemovedRecord ==
    /\ UpdateRan /\ ~last.skipSync /\ last.state.val.t = "null"
    /\ HasItem(last.before, KeyOf(last.owner.s))

\* C15: an update or hydrate effect for owner A leaves the record of every other
\* owner as it was (not created, not changed, not removed); what a hydrate effect for
\* A dispatches is what it dispatches when A's record is the only one stored; and
\* when a state has been written for A and another for B, a hydrate for A dispatches
\* A's state and a hydrate for B dispatches B's state.
OwnersKeptApart ==
    /\ last.op \in {"update", "hydrate"}
       => IF last.owner.t = "null" THEN storage = last.before
          ELSE SameButFor(storage, last.before, KeyOf(last.owner.s))
    /\ HydrateRan
       => last.dispatched =
             theHydrateEffect(Own(last.before, KeyOf(last.owner.s)), migrations,
                              last.owner).dispatched
    /\ \A sa \in {Num(1), Heap[1]}, sb \in {Num(1), Heap[1]} :
          /\ HasItem(storage, KeyOf(OwnerA)) /\ HasItem(storage, KeyOf(OwnerB))
          /\ storage[KeyOf(OwnerA)] = RecordOf(sa)
          /\ storage[KeyOf(OwnerB)] = RecordOf(sb)
          => /\ theHydrateEffect(storage, migrations, Str(OwnerA)).dispatched = <<sa>>
             /\ theHydrateEffect(storage, migrations, Str(OwnerB)).dispatched = <<sb>>

BothOwnersHydrateTheirOwn ==
    /\ HydrateRan /\ last.owner = Str(OwnerA)
    /\ HasItem(storage, KeyOf(OwnerA)) /\ HasItem(storage, KeyOf(OwnerB))
    /\ storage[KeyOf(OwnerA)] = RecordOf(Num(1))
    /\ storage[KeyOf(OwnerB)] = RecordOf(Heap[1])
    /\ last.dispatched = <<Num(1)>>
    /\ theHydrateEffect(storage, migrations, Str(OwnerB)).dispatched = <<Heap[1]>>

\* C16: after the purge effect no record under the configured key is left in the
\* storage, for any owner.
PurgeRemovesEveryOwner ==
    last.op = "purge"
    => \A k \in DOMAIN storage : ~startsWith(k, NAMESPACE \o <<":", "t", "e", "s", "t", ":">>)

----------------------------------------------------------------------------
(* Stored records: what hydrate, update, purge and the disk space leave behind *)

\* C24: when the hydrate effect runs and the selected owner is null or undefined, or
\* the owner has no stored record, the effect does nothing: migrate is not called, the
\* storage is unchanged and nothing is dispatched.
HydrateWithoutRecordDoesNothing ==
    /\ last.op = "hydrate"
    /\ (last.owner.t = "null" \/ ~HasItem(last.before, KeyOf(last.owner.s)))
    => /\ last.migrates = <<>>
       /\ storage = last.before
       /\ last.dispatched = <<>>
       /\ last.outcome = "returned"

HydratedOwnerWithoutRecord ==
    /\ last.op = "hydrate" /\ last.owner = Str(OwnerA)
    /\ ~HasItem(last.before, KeyOf(OwnerA))
    /\ HasItem(last.before, KeyOf(OwnerB))

\* C25: after a hydrate effect that returns normally with an owner that is not null,
\* the owner's record is absent or tagged with the configured version: no record with
\* an older, newer or unparsable version tag survives, nor one whose payload is null.
HydratedRecordIsCurrent ==
    HydrateRan /\ last.outcome = "returned"
    => \/ ~HasItem(storage, KeyOf(last.owner.s))
       \/ IsPrefix(NumberToString(Len(declared)) \o <<separator>>,
                   storage[KeyOf(last.owner.s)])

\* C26: when skipSync is not true and the selected state is neither null nor undefined
\* (0, the empty string and false included), the update effect never removes the
\* owner's record: removal happens only for a null or undefined state.
UpdateRemovesOnlyForNullState ==
    UpdateRan /\ ~last.skipSync /\ last.state.val.t # "null"
    => /\ last.did # "clear"
       /\ HasItem(last.before, KeyOf(last.owner.s))
          => HasItem(storage, KeyOf(last.owner.s))

\* C27: purge of the configuration with key K removes only records written under K:
\* every entry of another key (one that extends K with ':' included) and every entry
\* outside the namespace is left unchanged.
PurgeLeavesForeignEntries ==
    last.op = "purge"
    => \A k \in DOMAIN last.before \ {KeyOf(o) : o \in Owners} :
          k \in DOMAIN storage /\ storage[k] = last.before[k]

\* C21 as stated: right after set(owner, s) for a state s that is not null, get(owner)
\* returns the configured version and parse(stringify(s)), for either serializer.
StoredRecordRoundTrips ==
    last.op = "set"
    => getUsing(config.json, storage, last.owner)
        = [kind |-> "record", version |-> config.version,
           data |-> jsonParse(config.json, jsonStringify(config.json, last.state)).val,
           error |-> NoError]

\* the serialized state parses back to a value that is not null
ReadsBack(json, state) ==
    /\ jsonParse(json, jsonStringify(json, state)).ok
    /\ jsonParse(json, jsonStringify(json, state)).val.t # "null"

\* C21: right after set(owner, s) for a state s whose serialized form parses back to
\* a value that is not null, get(owner) returns the configured version, taken from
\* before the first separator even when the payload holds one, and parse(stringify(s)),
\* for the default JSON and for the serializer of the tests.
ReadableRecordRoundTrips ==
    last.op = "set" /\ ReadsBack(config.json, last.state)
    => /\ HasItem(storage, KeyOf(last.owner))
       /\ getUsing(config.json, storage, last.owner)
            = [kind |-> "record", version |-> config.version,
               data |-> jsonParse(config.json,
                                  jsonStringify(config.json, last.state)).val,
               error |-> NoError]

SeparatorInPayloadStored ==
    /\ last.op = "set"
    /\ last.state = Str(<<"1", "|", "0">>)
    /\ config.json = "myJSON"
    /\ config.version = 99

====
